---- MODULE Spec2Model ----
(***************************************************************************)
(* dropin-request: the request()/request-promise-native shim over fetch.   *)
(* The model follows the jar-enabled version of the library                *)
(* (src/unnamed/part_001): createRequestInstance, mainRequest,             *)
(* translateOptions, consumeBody and the DropinRequest stream/thenable.    *)
(*                                                                         *)
(* An options object is a function whose domain is the set of keys that    *)
(* are present, so that the object spread { ...a, ...b } is domain union   *)
(* with b winning.  A cookie jar (tough-cookie, an external library) is a  *)
(* set of cookies, all of them for the one site the model talks to.        *)
(***************************************************************************)
EXTENDS Integers, Sequences, FiniteSets, TLC

\* ------------------------------------------------------------------ bounds
MaxCalls == 1          \* calls of the call-lifecycle specification
MaxJarCalls == 2       \* calls of the shared-jar specification
MaxInstanceCalls == 2  \* calls of the instances specification
MaxOptionCalls == 1    \* calls of the options specification
MaxInstances == 2      \* request instances: the exported one and derived ones
MaxExplicitJars == 1   \* jars made by request.jar()
MaxPayloadCalls == 1   \* calls of the payload specification
MaxDerivations == 2    \* .defaults() calls of the derivations specification
MaxTimeoutCalls == 2   \* calls of the timeouts specification
MaxCallerCalls == 1    \* calls of the callers specification

\* ------------------------------------------------------------ value domains
\* what res.headers.get('set-cookie') can yield for call c: nothing, a header
\* the jar rejects (tough-cookie: "Cookie failed to parse"), or a cookie the
\* jar accepts; the server names the cookie it sets after the call
CookieOf(c) == ToString(c)
SetCookieHeaders(c) == {"none", "bad", CookieOf(c)}
IsCookie(header) == header \notin {"none", "bad"}
Statuses == {200, 399, 400}

NoError == "none"
URLRequired == "URL is required."
JarTypeError == "TypeError: jar.getCookieString is not a function"
NetworkError == "TypeError: fetch failed"
CookieParseError == "Cookie failed to parse"
BodyReadError == "body read failed"
AbortError == "AbortError"
HTTPError == "HTTP Error"
CallbackThrew == "callback threw"

\* a jar reference held in an options object or in activeJar
NullJar == [kind |-> "null", id |-> 0]
TrueJar == [kind |-> "true", id |-> 0]
PlainObject == [kind |-> "plain", id |-> 0]
JarRef(id) == [kind |-> "jar", id |-> id]

\* ----------------------------------------------------------- options objects
EmptyOptions == [k \in {} |-> TRUE]

\* { ...a, ...b }
Spread(a, b) ==
  [k \in DOMAIN a \cup DOMAIN b |-> IF k \in DOMAIN b THEN b[k] ELSE a[k]]

\* options.k || {}  for a headers map
HeadersOf(options) ==
  IF "headers" \in DOMAIN options THEN options["headers"] ELSE EmptyOptions

\* JSON.parse(JSON.stringify(o)): plain data survives, a CookieJar comes back
\* as the plain object its toJSON() returned
JsonClone(o) ==
  [k \in DOMAIN o |->
     IF k = "jar" /\ o[k].kind = "jar" THEN PlainObject ELSE o[k]]

\* ------------------------------------------------------------------- errors
\* an Error object: message, err.statusCode (0: not set), err.response set?
Err(message) == [message |-> message, statusCode |-> 0, response |-> FALSE]
Null == Err(NoError)

\* -------------------------------------------------------------------- state
VARIABLES
  instances,     \* request instances: [defaultOptions, instanceJar (0: null)]
  jars,          \* the CookieJar objects made so far: jar id -> cookies held
  explicitJars,  \* ids of the jars made by request.jar()
  calls          \* the calls made so far, in the order they were issued

vars == <<instances, jars, explicitJars, calls>>

\* --------------------------------------------------------- translateOptions
\* jar.getCookieString(url): the cookies the jar holds for the site
getCookieString(store, jar) == store[jar.id]

\* String.prototype.toUpperCase on a method name
Verbs == {"get", "post", "put", "delete", "patch", "head", "options"}
toUpperCase(m) ==
  CASE m = "get" -> "GET" [] m = "post" -> "POST" [] m = "put" -> "PUT"
    [] m = "delete" -> "DELETE" [] m = "patch" -> "PATCH" [] m = "head" -> "HEAD"
    [] m = "options" -> "OPTIONS" [] OTHER -> m

\* (options.method || 'GET').toUpperCase()
MethodOf(options) ==
  toUpperCase(IF "method" \in DOMAIN options THEN options["method"] ELSE "GET")

\* JavaScript values of the body and form options, written as literals:
\* null, the empty string, a string, an object; true and false for json
Undefined == "undefined"
BodyValues == {"null", "''", "'raw'", "{b:1}"}
FormValues == {"{f:1}"}
Truthy(v) == v \notin {Undefined, "null", "false", "''"}

\* JSON.stringify(value)
JSONstringify(v) ==
  CASE v = "null" -> "'null'"
    [] v = "''" -> "'\"\"'"
    [] v = "'raw'" -> "'\"raw\"'"
    [] v = "{b:1}" -> "'{\"b\":1}'"
    [] OTHER -> Undefined

\* new URLSearchParams(form).toString()
URLSearchParams(v) ==
  CASE v = "{f:1}" -> "'f=1'"
    [] v = "{b:1}" -> "'b=1'"
    [] v = "'raw'" -> "'raw='"
    [] OTHER -> "''"

\* options.k, undefined when the key is absent
Option(options, k) == IF k \in DOMAIN options THEN options[k] ELSE Undefined

\* the branch of translateOptions that sets the body: the first of
\*   options.json && options.body !== undefined,  options.form,  options.body
BodyBranchFormFirst(options) ==
  IF Truthy(Option(options, "form")) THEN "form"
  ELSE IF Truthy(Option(options, "json")) /\ "body" \in DOMAIN options THEN "json"
  ELSE IF Truthy(Option(options, "body")) THEN "raw"
  ELSE "none"

BodyBranch(options) ==
  IF Truthy(Option(options, "json")) /\ "body" \in DOMAIN options THEN "json"
  ELSE IF Truthy(Option(options, "form")) THEN "form"
  ELSE IF Truthy(Option(options, "body")) THEN "raw"
  ELSE "none"

\* fetchOptions.body
BodyOf(options) ==
  CASE BodyBranch(options) = "json" -> JSONstringify(options["body"])
    [] BodyBranch(options) = "form" -> URLSearchParams(options["form"])
    [] BodyBranch(options) = "raw" -> options["body"]
    [] OTHER -> Undefined

\* fetchOptions.headers after the body branches
HeadersWithBody(options) ==
  LET h == HeadersOf(options)
      ct(v) == [k \in {"Content-Type"} |-> v]
      accept == IF "Accept" \in DOMAIN h /\ Truthy(h["Accept"])
                  THEN EmptyOptions
                  ELSE [k \in {"Accept"} |-> "application/json"]
  IN CASE BodyBranch(options) = "json" ->
            Spread(Spread(h, ct("application/json")), accept)
       [] BodyBranch(options) = "form" ->
            Spread(h, ct("application/x-www-form-urlencoded"))
       [] OTHER -> h

\* The outcome of translateOptions(options, jar): the error it throws, or the
\* fetch options.  signal: an AbortController was made and its timer started,
\* which happens before the url is looked at.
translateOptionsNoCookie(options, jar, store) ==
  LET error == IF "url" \notin DOMAIN options THEN Err(URLRequired)
               ELSE IF jar.kind = "plain" THEN Err(JarTypeError)
               ELSE Null
  IN [error |-> error,
      method |-> MethodOf(options),
      headers |-> IF error = Null THEN HeadersWithBody(options)
                  ELSE HeadersOf(options),
      Cookie |-> {},
      body |-> IF error = Null THEN BodyOf(options) ELSE Undefined,
      signal |-> "timeout" \in DOMAIN options]

translateOptions(options, jar, store) ==
  LET error == IF "url" \notin DOMAIN options THEN Err(URLRequired)
               ELSE IF jar.kind = "plain" THEN Err(JarTypeError)
               ELSE Null
  IN [error |-> error,
      method |-> MethodOf(options),
      headers |-> IF error = Null THEN HeadersWithBody(options)
                  ELSE HeadersOf(options),
      Cookie |-> IF "url" \in DOMAIN options /\ jar.kind = "jar"
                   THEN getCookieString(store, jar) ELSE {},
      body |-> IF error = Null THEN BodyOf(options) ELSE Undefined,
      signal |-> "timeout" \in DOMAIN options]

\* res.ok of the fetch Response
ResOk(status) == status >= 200 /\ status <= 299

\* jar.setCookie(setCookieHeader, url) on an accepted cookie
setCookieDropped(store, call, header) == store

setCookieStale(store, call, header) ==
  [store EXCEPT ![call.jar.id] = call.fetchOptions.Cookie \cup {header}]

setCookie(store, call, header) ==
  [store EXCEPT ![call.jar.id] = @ \cup {header}]

\* ------------------------------------------------------ createRequestInstance
createRequestInstance(defaultOptions) ==
  [defaultOptions |-> defaultOptions, instanceJar |-> 0]

\* an instance returned by .defaults(): parent is the instance whose .defaults
\* was called, given is the newDefaults argument
Derived(instance, parent, given) ==
  [defaultOptions |-> instance.defaultOptions,
   instanceJar |-> instance.instanceJar,
   parent |-> parent,
   given |-> given]

\* const finalOptions = { ...defaultOptions, ...opts }
FinalOptions(defaultOptions, opts) == Spread(defaultOptions, opts)

\* finalOptions.jar, NullJar when the key is absent
JarOption(finalOptions) ==
  IF "jar" \in DOMAIN finalOptions THEN finalOptions["jar"] ELSE NullJar

\* the instance jar after the lazy creation: the one the instance has, or a new
\* tough.CookieJar() whose id is the next free one
LazyInstanceJarFresh(instanceJar, nJars) == nJars + 1

LazyInstanceJar(instanceJar, nJars) ==
  IF instanceJar = 0 THEN nJars + 1 ELSE instanceJar

\* activeJar of a call
ActiveJar(finalOptions, instanceJar, nJars) ==
  LET j == JarOption(finalOptions) IN
  IF j.kind = "true" THEN JarRef(LazyInstanceJar(instanceJar, nJars))
  ELSE IF j.kind \in {"jar", "plain"} THEN j
  ELSE NullJar

\* mainRequest.defaults(newDefaults): the defaults of the derived instance
MergedDefaults(defaultOptions, newDefaults) ==
  LET currentDefaults == JsonClone(defaultOptions)
      mergedDefaults == Spread(currentDefaults, newDefaults)
  IN IF "headers" \in DOMAIN currentDefaults /\ "headers" \in DOMAIN newDefaults
       THEN [mergedDefaults EXCEPT !["headers"] =
               Spread(currentDefaults["headers"], newDefaults["headers"])]
       ELSE mergedDefaults

\* -------------------------------------------------------------------- calls
NoResponse == [status |-> 0, setCookie |-> "none"]
NoFetchOptions ==
  [error |-> Null, method |-> "GET", headers |-> EmptyOptions, Cookie |-> {},
   body |-> Undefined, signal |-> FALSE]
NoValue == [kind |-> "none", err |-> Null]

\* The state of one call.  pc is where its asynchronous function stands:
\*   "constructed"  DropinRequest built, _init waits for process.nextTick
\*   "translated"   callback mode, at  await translateOptions(...)
\*   "fetching"     at  await fetch(url, fetchOptions)
\*   "cookieSet"    at  await jar.setCookie(...)
\*   "consuming"    at  await consumeBody(...)
\*   "done"         the function has returned
\* aborted is "no", or where the call stood when controller.abort() ran.
\* stream is the body piped into the object: "none", "flowing", "ended", or
\* "broken" when its source was destroyed before its end.
\* onThen, onError: the caller has attached promise handlers, an 'error'
\* listener.  unhandled: the rejections and errors nobody handles:
\*   "promise-view"  the rejection of this._promise
\*   "_init"         the rejection of the promise of _init, which the
\*                   process.nextTick callback drops
\*   "stream"        the 'error' event of the Readable.fromWeb source
NewCall(inst, hasCallback, opts, finalOptions, activeJar) ==
  [inst |-> inst,
   hasCallback |-> hasCallback,
   opts |-> opts,
   options |-> finalOptions,
   jar |-> activeJar,
   pc |-> IF hasCallback THEN "translated" ELSE "constructed",
   fetchOptions |-> NoFetchOptions,
   res |-> NoResponse,
   responseForCallback |-> FALSE,
   callbackCalls |-> << >>,
   isPiped |-> FALSE,
   pipedAtArrival |-> FALSE,
   pipedAtCheck |-> FALSE,
   taken |-> "none",
   promise |-> "pending",
   value |-> NoValue,
   events |-> << >>,
   thrown |-> Null,
   raised |-> Null,
   aborted |-> "no",
   stream |-> "none",
   onThen |-> FALSE,
   onError |-> FALSE,
   unhandled |-> {}]

\* callback(err, response, body): response is the status code of
\* responseForCallback (0: null), body is "body" or "null"
Invoke(call, err, response, body) ==
  [call EXCEPT !.callbackCalls =
     Append(@, [err |-> err, response |-> response, body |-> body])]

\* the catch block of the callback branch
CatchCallbackNullResponse(call, err) ==
  [Invoke(call, err, 0, "null") EXCEPT !.pc = "done", !.thrown = err]

CatchCallback(call, err) ==
  [Invoke(call, err,
          IF call.responseForCallback THEN call.res.status ELSE 0,
          "null")
     EXCEPT !.pc = "done", !.thrown = err]

\* a promise settles once: resolve and reject on a settled promise do nothing
Settle(call, state, value) ==
  IF call.promise = "pending"
    THEN [call EXCEPT !.promise = state, !.value = value]
    ELSE call

\* the catch block of DropinRequest._init
CatchPromiseNoEmit(call, err) ==
  [Settle(call, "rejected", [kind |-> "error", err |-> err])
     EXCEPT !.pc = "done", !.thrown = err]

\* this.emit('error', err) with no 'error' listener throws err out of the catch
\* block, which rejects the promise of _init
CatchPromise(call, err) ==
  [Settle(call, "rejected", [kind |-> "error", err |-> err])
     EXCEPT !.events = Append(@, "error"), !.pc = "done", !.thrown = err,
            !.unhandled = @ \cup (IF call.onThen THEN {} ELSE {"promise-view"})
                            \cup (IF call.onError THEN {} ELSE {"_init"})]

Catch(call, err) ==
  IF call.hasCallback THEN CatchCallback(call, err) ELSE CatchPromise(call, err)

\* translateOptions runs up to its first await as soon as it is called: the
\* url check and the jar lookup happen then
TranslateSync(call, store) ==
  [call EXCEPT !.fetchOptions = translateOptions(call.options, call.jar, store)]

\* after  await translateOptions(...): its error is caught, or fetch is called
ResumeDispatch(call) == [call EXCEPT !.pc = "fetching"]

Resume(call) ==
  IF call.fetchOptions.error # Null
    THEN Catch(call, call.fetchOptions.error)
    ELSE [call EXCEPT !.pc = "fetching"]

\* the callback branch of mainRequest up to its return: the async function is
\* started, nothing is thrown to the caller
CallbackBranchSyncThrow(call, store) ==
  LET c1 == TranslateSync(call, store) IN
  IF c1.fetchOptions.error # Null
    THEN [c1 EXCEPT !.pc = "done", !.raised = c1.fetchOptions.error]
    ELSE c1

CallbackBranch(call, store) == TranslateSync(call, store)

\* the success path of _init: stream when piped, buffer otherwise
SuccessPathBuffer(call) ==
  [call EXCEPT !.taken = "buffer", !.pipedAtCheck = call.isPiped,
               !.pc = "consuming"]

SuccessPath(call) ==
  IF call.isPiped
    THEN [Settle(call, "resolved", [kind |-> "response", err |-> Null])
            EXCEPT !.taken = "stream", !.pipedAtCheck = TRUE, !.pc = "done",
                   !.stream = IF call.aborted = "no" THEN "flowing" ELSE "broken",
                   !.unhandled = IF call.aborted = "no" THEN @
                                 ELSE @ \cup {"stream"}]
    ELSE [call EXCEPT !.taken = "buffer", !.pipedAtCheck = FALSE,
                      !.pc = "consuming"]

\* what follows the jar update, up to the next await.  listenerPipes: a
\* 'response' listener of the caller calls pipe() on the object
AfterJar(call, listenerPipes) ==
  IF call.hasCallback
    THEN [call EXCEPT !.responseForCallback = TRUE, !.pc = "consuming"]
    ELSE LET c1 == [call EXCEPT !.events = Append(@, "response"),
                                !.isPiped = @ \/ listenerPipes]
         IN IF ~ResOk(c1.res.status)
              THEN [c1 EXCEPT !.pc = "consuming"]
              ELSE SuccessPath(c1)

\* the HTTP error of the callback branch and of _init
HttpErrorCallback(status) ==
  [message |-> HTTPError, statusCode |-> 0, response |-> TRUE]

HttpErrorPromise(status) ==
  [message |-> HTTPError, statusCode |-> status, response |-> TRUE]

\* after  await consumeBody(...)  has returned the body.  throws: the callback
\* of the caller throws when it is invoked from the try block
BodyRead(call, throws) ==
  IF call.hasCallback
    THEN LET c1 == Invoke(call,
                          IF ~ResOk(call.res.status)
                            THEN HttpErrorCallback(call.res.status) ELSE Null,
                          call.res.status, "body")
         IN IF throws
              THEN CatchCallback(c1, Err(CallbackThrew))
              ELSE [c1 EXCEPT !.pc = "done"]
    ELSE IF ~ResOk(call.res.status)
           THEN CatchPromise(call, HttpErrorPromise(call.res.status))
           ELSE [Settle(call, "resolved", [kind |-> "body", err |-> Null])
                   EXCEPT !.pc = "done"]

\* controller.abort() of a call, run by the timer that translateOptions
\* started: the signal of the call is aborted, and a body that is being piped
\* is destroyed, its 'error' event finding no listener
Abort(call) ==
  [call EXCEPT !.aborted = call.pc,
               !.stream = IF @ = "flowing" THEN "broken" ELSE @,
               !.unhandled = IF call.stream = "flowing" THEN @ \cup {"stream"}
                             ELSE @]

\* setTimeout(() => controller.abort(), options.timeout) of call c fires
abortEveryCall(cs, c) ==
  [d \in DOMAIN cs |-> IF cs[d].aborted = "no" THEN Abort(cs[d]) ELSE cs[d]]

abort(cs, c) == [cs EXCEPT ![c] = Abort(@)]

\* ------------------------------------------------------------------ actions
\* the inputs of the calls: options with or without a url, and with the jar
\* option absent, true, one of the jars made by request.jar(), or an object
\* that is no CookieJar
UrlOptions == {EmptyOptions, [k \in {"url"} |-> "u"]}
WithUrl == [k \in {"url"} |-> "u"]
JarOptions == {EmptyOptions, [k \in {"jar"} |-> TrueJar]}
                \cup {[k \in {"jar"} |-> JarRef(j)] : j \in explicitJars}
CallOptions ==
  {Spread(a, b) : a \in UrlOptions,
                  b \in {EmptyOptions, [k \in {"jar"} |-> TrueJar],
                         [k \in {"jar"} |-> PlainObject]}}
JarCallOptions == {Spread(WithUrl, b) : b \in JarOptions \ {EmptyOptions}}
InstanceCallOptions == {Spread(WithUrl, b) : b \in JarOptions}

Settled(call) == call.pc = "done" \/ call.promise # "pending"

Init ==
  /\ instances = << createRequestInstance(EmptyOptions) >>
  /\ jars = << >>
  /\ explicitJars = {}
  /\ calls = << >>

\* request.jar()
jar ==
  /\ jars' = Append(jars, {})
  /\ explicitJars' = explicitJars \cup {Len(jars) + 1}
  /\ UNCHANGED <<instances, calls>>

\* request.defaults(newDefaults) on instance i; the derived instance is kept
\* with the instance it was derived from and the defaults it was given
defaults(i, newDefaults) ==
  /\ instances' = Append(instances,
       Derived(createRequestInstance(
                 MergedDefaults(instances[i].defaultOptions, newDefaults)),
               i, newDefaults))
  /\ UNCHANGED <<jars, explicitJars, calls>>

\* instance i called as request(opts, callback) or request(opts)
mainRequest(i, opts, hasCallback) ==
  /\ LET finalOptions == FinalOptions(instances[i].defaultOptions, opts)
         activeJar == ActiveJar(finalOptions, instances[i].instanceJar, Len(jars))
         created == activeJar.kind = "jar" /\ activeJar.id > Len(jars)
         store == IF created THEN Append(jars, {}) ELSE jars
         call == NewCall(i, hasCallback, opts, finalOptions, activeJar)
     IN /\ jars' = store
        /\ instances' = IF JarOption(finalOptions).kind = "true"
                          THEN [instances EXCEPT ![i].instanceJar = activeJar.id]
                          ELSE instances
        /\ calls' = Append(calls, IF hasCallback THEN CallbackBranch(call, store)
                                  ELSE call)
  /\ UNCHANGED explicitJars

\* instance i called as request.get(opts, callback) or request.get(opts): the
\* verb, in upper case, becomes the method of the options
verb(i, method, opts, hasCallback) ==
  /\ method \in Verbs
  /\ mainRequest(i, Spread(opts, [k \in {"method"} |-> toUpperCase(method)]),
                 hasCallback)

\* process.nextTick(() => this._init()) fires: _init up to  await fetch
DropinRequestInit(c) ==
  /\ calls[c].pc = "constructed"
  /\ calls' = [calls EXCEPT ![c] = Resume(TranslateSync(@, jars))]
  /\ UNCHANGED <<instances, jars, explicitJars>>

\* the callback branch after  await translateOptions(...)
CallbackResume(c) ==
  /\ calls[c].pc = "translated"
  /\ calls' = [calls EXCEPT ![c] = Resume(@)]
  /\ UNCHANGED <<instances, jars, explicitJars>>

\* req.pipe(destination) by the caller, while the call is under way
pipe(c) ==
  /\ ~calls[c].hasCallback
  /\ ~calls[c].isPiped
  /\ calls[c].pc # "done"
  /\ calls' = [calls EXCEPT ![c].isPiped = TRUE]
  /\ UNCHANGED <<instances, jars, explicitJars>>

\* fetch rejects: a transport failure, or the signal was aborted
FetchReject(c) ==
  /\ calls[c].pc = "fetching"
  /\ calls' = [calls EXCEPT ![c] =
       Catch(@, IF @.aborted = "no" THEN Err(NetworkError) ELSE Err(AbortError))]
  /\ UNCHANGED <<instances, jars, explicitJars>>

\* fetch resolves with a response: the jar is updated, and without a jar
\* update the function runs on to its next await
FetchResolve(c, status, header, listenerPipes) ==
  /\ calls[c].pc = "fetching"
  /\ calls[c].aborted = "no"
  /\ LET call == [calls[c] EXCEPT !.res = [status |-> status, setCookie |-> header],
                                  !.pipedAtArrival = calls[c].isPiped]
     IN IF call.jar.kind # "null" /\ header # "none"
          THEN IF header = "bad"
                 THEN /\ calls' = [calls EXCEPT ![c] = Catch(call, Err(CookieParseError))]
                      /\ jars' = jars
                 ELSE /\ calls' = [calls EXCEPT ![c] = [call EXCEPT !.pc = "cookieSet"]]
                      /\ jars' = setCookie(jars, call, header)
          ELSE /\ calls' = [calls EXCEPT ![c] = AfterJar(call, listenerPipes)]
               /\ jars' = jars
  /\ UNCHANGED <<instances, explicitJars>>

\* after  await jar.setCookie(...)
AfterSetCookie(c, listenerPipes) ==
  /\ calls[c].pc = "cookieSet"
  /\ calls' = [calls EXCEPT ![c] = AfterJar(@, listenerPipes)]
  /\ UNCHANGED <<instances, jars, explicitJars>>

\* consumeBody returns the body
BodyDone(c, throws) ==
  /\ calls[c].pc = "consuming"
  /\ calls[c].aborted = "no"
  /\ calls' = [calls EXCEPT ![c] = BodyRead(@, throws)]
  /\ UNCHANGED <<instances, jars, explicitJars>>

\* consumeBody rejects: the body cannot be read, or the signal was aborted
BodyFail(c) ==
  /\ calls[c].pc = "consuming"
  /\ calls' = [calls EXCEPT ![c] =
       Catch(@, IF @.aborted = "no" THEN Err(BodyReadError) ELSE Err(AbortError))]
  /\ UNCHANGED <<instances, jars, explicitJars>>

\* the timer of call c fires
TimeoutFires(c) ==
  /\ calls[c].fetchOptions.signal
  /\ calls[c].aborted = "no"
  /\ calls' = abort(calls, c)
  /\ UNCHANGED <<instances, jars, explicitJars>>

\* the body piped into the object reaches its end
StreamEnd(c) ==
  /\ calls[c].stream = "flowing"
  /\ calls' = [calls EXCEPT ![c].stream = "ended"]
  /\ UNCHANGED <<instances, jars, explicitJars>>

\* req.then(...), req.catch(...) or await req by the caller
then(c) ==
  /\ ~calls[c].hasCallback
  /\ ~calls[c].onThen
  /\ calls[c].pc # "done"
  /\ calls' = [calls EXCEPT ![c].onThen = TRUE]
  /\ UNCHANGED <<instances, jars, explicitJars>>

\* req.on('error', listener) by the caller
onError(c) ==
  /\ ~calls[c].hasCallback
  /\ ~calls[c].onError
  /\ calls[c].pc # "done"
  /\ calls' = [calls EXCEPT ![c].onError = TRUE]
  /\ UNCHANGED <<instances, jars, explicitJars>>

CallIds == 1..Len(calls)

\* The call lifecycle: calls through the exported instance, every outcome of
\* every await, every behaviour of the caller.
Next ==
  \/ \E o \in CallOptions, cb \in BOOLEAN :
       Len(calls) < MaxCalls /\ mainRequest(1, o, cb)
  \/ \E o \in CallOptions, cb \in BOOLEAN :
       Len(calls) < MaxCalls /\ verb(1, "post", o, cb)
  \/ \E c \in CallIds : DropinRequestInit(c)
  \/ \E c \in CallIds : CallbackResume(c)
  \/ \E c \in CallIds : pipe(c)
  \/ \E c \in CallIds : FetchReject(c)
  \/ \E c \in CallIds, st \in Statuses, lp \in BOOLEAN :
       \E h \in SetCookieHeaders(c) : FetchResolve(c, st, h, lp)
  \/ \E c \in CallIds, lp \in BOOLEAN : AfterSetCookie(c, lp)
  \/ \E c \in CallIds, t \in BOOLEAN : BodyDone(c, t)
  \/ \E c \in CallIds : BodyFail(c)

Spec == Init /\ [][Next]_vars

\* Calls that share jars: the exported instance, its own jar and the jars made
\* by request.jar(), calls with a url whose responses are successful and may
\* set a cookie.
NextJar ==
  \/ Cardinality(explicitJars) < MaxExplicitJars /\ jar
  \/ \E o \in JarCallOptions, cb \in BOOLEAN :
       Len(calls) < MaxJarCalls /\ mainRequest(1, o, cb)
  \/ \E c \in CallIds : DropinRequestInit(c)
  \/ \E c \in CallIds : CallbackResume(c)
  \/ \E c \in CallIds :
       \E h \in {"none", CookieOf(c)} : FetchResolve(c, 200, h, FALSE)
  \/ \E c \in CallIds : AfterSetCookie(c, FALSE)
  \/ \E c \in CallIds : BodyDone(c, FALSE)

SpecJar == Init /\ [][NextJar]_vars

\* Instances and their jars: derivations with .defaults(), jars made by
\* request.jar(), and the calls as mainRequest leaves them when it returns.
NextInstances ==
  \/ Cardinality(explicitJars) < MaxExplicitJars /\ jar
  \/ \E i \in 1..Len(instances), d \in JarOptions :
       Len(instances) < MaxInstances /\ defaults(i, d)
  \/ \E i \in 1..Len(instances), o \in InstanceCallOptions, cb \in BOOLEAN :
       Len(calls) < MaxInstanceCalls /\ mainRequest(i, o, cb)

SpecInstances == Init /\ [][NextInstances]_vars

\* Options: instances derived with default headers, and calls with a url and
\* headers of their own, up to the dispatch of fetch.
HeaderNames == {"X-A", "X-B"}
HeaderValues == {"v1", "v2"}
HeaderMaps == UNION {[S -> HeaderValues] : S \in SUBSET HeaderNames}
HeaderOptions == {EmptyOptions} \cup {[k \in {"headers"} |-> h] : h \in HeaderMaps}
HeaderCallOptions == {Spread(WithUrl, h) : h \in HeaderOptions}

NextOptions ==
  \/ \E i \in 1..Len(instances), d \in HeaderOptions :
       Len(instances) < MaxInstances /\ defaults(i, d)
  \/ \E i \in 1..Len(instances), o \in HeaderCallOptions, cb \in BOOLEAN :
       Len(calls) < MaxOptionCalls /\ mainRequest(i, o, cb)
  \/ \E c \in CallIds : DropinRequestInit(c)
  \/ \E c \in CallIds : CallbackResume(c)

SpecOptions == Init /\ [][NextOptions]_vars

\* Timeouts: calls with a url, with and without the timeout option, whose
\* timers fire at any moment after translateOptions has started them.
TimeoutCallOptions == {WithUrl, Spread(WithUrl, [k \in {"timeout"} |-> "1000"])}

NextTimeout ==
  \/ \E o \in TimeoutCallOptions, cb \in BOOLEAN :
       Len(calls) < MaxTimeoutCalls /\ mainRequest(1, o, cb)
  \/ \E c \in CallIds : DropinRequestInit(c)
  \/ \E c \in CallIds : CallbackResume(c)
  \/ \E c \in CallIds : pipe(c)
  \/ \E c \in CallIds : TimeoutFires(c)
  \/ \E c \in CallIds : FetchReject(c)
  \/ \E c \in CallIds, st \in {200, 400} : FetchResolve(c, st, "none", FALSE)
  \/ \E c \in CallIds : BodyDone(c, FALSE)
  \/ \E c \in CallIds : BodyFail(c)
  \/ \E c \in CallIds : StreamEnd(c)

SpecTimeout == Init /\ [][NextTimeout]_vars

\* Callers: no-callback calls, with and without a url, on which the caller
\* attaches promise handlers, an 'error' listener, a pipe, or nothing.
NextCaller ==
  \/ \E o \in UrlOptions :
       Len(calls) < MaxCallerCalls /\ mainRequest(1, o, FALSE)
  \/ \E c \in CallIds : then(c)
  \/ \E c \in CallIds : onError(c)
  \/ \E c \in CallIds : pipe(c)
  \/ \E c \in CallIds : DropinRequestInit(c)
  \/ \E c \in CallIds : FetchReject(c)
  \/ \E c \in CallIds, st \in Statuses : FetchResolve(c, st, "none", FALSE)
  \/ \E c \in CallIds : BodyDone(c, FALSE)
  \/ \E c \in CallIds : BodyFail(c)

SpecCaller == Init /\ [][NextCaller]_vars

\* Derivations: chains of .defaults() with default headers and default jars.
DefaultsOptions == {Spread(j, h) : j \in JarOptions, h \in HeaderOptions}

NextDefaults ==
  \/ Cardinality(explicitJars) < MaxExplicitJars /\ jar
  \/ \E i \in 1..Len(instances), d \in DefaultsOptions :
       Len(instances) < MaxDerivations + 1 /\ defaults(i, d)

SpecDefaults == Init /\ [][NextDefaults]_vars

\* Payloads: calls with a url and every combination of the json, body, form
\* and headers options, up to the dispatch of fetch.
PayloadOptions ==
  {Spread(Spread(j, b), Spread(f, h)) :
     j \in {EmptyOptions} \cup {[k \in {"json"} |-> v] : v \in {"true", "false"}},
     b \in {EmptyOptions} \cup {[k \in {"body"} |-> v] : v \in BodyValues},
     f \in {EmptyOptions} \cup {[k \in {"form"} |-> v] : v \in FormValues},
     h \in {EmptyOptions,
            [k \in {"headers"} |-> [n \in {"Accept"} |-> "text/html"]],
            [k \in {"headers"} |-> [n \in {"Content-Type"} |-> "text/plain"]]}}
PayloadCallOptions == {Spread(u, o) : u \in UrlOptions, o \in PayloadOptions}

NextPayload ==
  \/ \E o \in PayloadCallOptions, cb \in BOOLEAN :
       Len(calls) < MaxPayloadCalls /\ mainRequest(1, o, cb)
  \/ \E c \in CallIds : DropinRequestInit(c)
  \/ \E c \in CallIds : CallbackResume(c)

SpecPayload == Init /\ [][NextPayload]_vars

\* ------------------------------------------------------------------- claims
CallbackCalls == {c \in CallIds : calls[c].hasCallback}
PromiseCalls == {c \in CallIds : ~calls[c].hasCallback}
FirstCallback(c) == calls[c].callbackCalls[1]
LastCallback(c) == calls[c].callbackCalls[Len(calls[c].callbackCalls)]
MissingUrl(c) == "url" \notin DOMAIN calls[c].options

\* C1: a call made with a callback throws nothing to its caller, and every
\* error of the call (missing url, jar lookup, transport, cookie, body, failure
\* status) is the first argument of a callback invocation; for a missing url
\* the callback receives (error, null, null).
C1_CallbackNeverThrows ==
  \A c \in CallbackCalls :
    /\ calls[c].raised = Null
    /\ calls[c].pc = "done" =>
         /\ calls[c].callbackCalls # << >>
         /\ calls[c].thrown # Null => LastCallback(c).err = calls[c].thrown
         /\ (calls[c].res.status >= 400 /\ FirstCallback(c).body = "body")
              => FirstCallback(c).err.message = HTTPError
         /\ MissingUrl(c) =>
              calls[c].callbackCalls =
                << [err |-> Err(URLRequired), response |-> 0, body |-> "null"] >>

C1_Witness ==
  \E c \in CallbackCalls :
    /\ calls[c].pc = "done"
    /\ MissingUrl(c)
    /\ FirstCallback(c) = [err |-> Err(URLRequired), response |-> 0, body |-> "null"]

\* C2 as claimed: for a successful no-callback call the mode is decided by
\* whether pipe() had been called when the response arrived: piped then means
\* streaming, not piped then means buffering.
C2_ModeDecidedAtArrival ==
  \A c \in PromiseCalls :
    calls[c].taken # "none" =>
      (calls[c].taken = "stream" <=> calls[c].pipedAtArrival)

\* C2 as amended: the mode is decided when _init tests _isPiped, which is
\* after the response has arrived, after the jar update and after the
\* 'response' listeners have run.  A pipe attached before the response arrived
\* always streams; a pipe attached by the test streams; streaming resolves the
\* promise-view with the response and never reads the body; with no pipe by
\* the test the body is read and the promise-view resolves with the parsed
\* body; a call takes one mode only.
C2_ModeDecidedAtCheck ==
  \A c \in PromiseCalls :
    calls[c].taken # "none" =>
      /\ ResOk(calls[c].res.status)
      /\ calls[c].pipedAtArrival => calls[c].taken = "stream"
      /\ calls[c].taken = "stream" <=> calls[c].pipedAtCheck
      /\ calls[c].taken = "stream" =>
           /\ calls[c].pc = "done"
           /\ calls[c].promise = "resolved"
           /\ calls[c].value.kind = "response"
      /\ calls[c].taken = "buffer" =>
           /\ calls[c].pc \in {"consuming", "done"}
           /\ calls[c].value.kind # "response"
           /\ (calls[c].pc = "done" /\ calls[c].thrown = Null) =>
                (calls[c].promise = "resolved" /\ calls[c].value.kind = "body")

C2_Witness ==
  \E c \in PromiseCalls :
    /\ calls[c].taken = "stream"
    /\ calls[c].pipedAtArrival
    /\ calls[c].promise = "resolved"
    /\ calls[c].value.kind = "response"

C4_SettlesOnce ==
  \A c \in CallIds :
    /\ Len(calls[c].callbackCalls) <= 1
    /\ (calls[c].hasCallback /\ calls[c].pc = "done") =>
         Len(calls[c].callbackCalls) = 1

\* C5: a call that got a response and whose body was read is a success if
\* and only if 200 <= status < 400.
C5_SuccessIffBelow400 ==
  \A c \in CallIds :
    LET ok == calls[c].res.status >= 200 /\ calls[c].res.status < 400 IN
    /\ (calls[c].hasCallback /\ calls[c].callbackCalls # << >>
          /\ FirstCallback(c).body = "body") =>
         (FirstCallback(c).err = Null <=> ok)
    /\ (~calls[c].hasCallback /\ calls[c].pc = "done" /\ calls[c].res.status # 0
          /\ calls[c].thrown.message \in {NoError, HTTPError}) =>
         (calls[c].promise = "resolved" <=> ok)

\* C6: the request of a call carries every default header of its instance
\* whose key the call does not supply, and for every key the call supplies it
\* carries the value of the call.
C6_HeadersMergedByKey ==
  \A c \in CallIds :
    LET d == HeadersOf(instances[calls[c].inst].defaultOptions)
        o == HeadersOf(calls[c].opts)
        sent == calls[c].fetchOptions.headers
    IN calls[c].pc = "fetching" =>
         \A k \in DOMAIN d \cup DOMAIN o :
           /\ k \in DOMAIN sent
           /\ sent[k] = IF k \in DOMAIN o THEN o[k] ELSE d[k]

\* C8: when a jar is active and the response sets a cookie, the cookie is in
\* the jar before the callback is invoked, before the promise-view settles and
\* before a 'response' or 'error' event is emitted, whatever the status.
C8_JarUpdatedFirst ==
  \A c \in CallIds :
    (/\ calls[c].jar.kind = "jar"
     /\ IsCookie(calls[c].res.setCookie)
     /\ \/ calls[c].callbackCalls # << >>
        \/ calls[c].promise # "pending"
        \/ calls[c].events # << >>
        \/ calls[c].pc = "done") =>
      calls[c].res.setCookie \in jars[calls[c].jar.id]

C8_Witness ==
  \E c \in CallIds :
    /\ calls[c].jar.kind = "jar"
    /\ IsCookie(calls[c].res.setCookie)
    /\ calls[c].res.status = 400
    /\ calls[c].pc = "done"
    /\ \/ calls[c].callbackCalls # << >>
       \/ calls[c].events = << "response", "error" >>
    /\ calls[c].res.setCookie \in jars[calls[c].jar.id]

RealJar(c) == calls[c].jar.kind = "jar"
\* the call has applied its set-cookie header to its jar
HasWritten(c) ==
  /\ RealJar(c)
  /\ IsCookie(calls[c].res.setCookie)
  /\ calls[c].pc \in {"cookieSet", "consuming", "done"}
\* the step reads the jar for call c: translateOptions is called for it
ReadsJar(c) ==
  /\ c \in 1..Len(calls')
  /\ calls'[c].jar.kind = "jar"
  /\ IF c \in CallIds
       THEN calls[c].pc = "constructed" /\ calls'[c].pc # "constructed"
       ELSE calls'[c].hasCallback
\* the step writes the jar for call c: jar.setCookie is called for it
WritesJar(c) ==
  /\ c \in CallIds
  /\ calls[c].pc = "fetching"
  /\ calls'[c].pc = "cookieSet"

\* C7: when a call reads its jar, the Cookie header it builds holds every
\* cookie set by the response of a call that has settled and used the same
\* jar; and a Cookie header holds only cookies that a response set through the
\* same jar, so a call with another jar does not carry them.
C7_JarRoundTrip ==
  /\ [][\A c2 \in 1..Len(calls') :
          ReadsJar(c2) =>
            \A c1 \in CallIds :
              (/\ Settled(calls[c1])
               /\ calls[c1].jar = calls'[c2].jar
               /\ IsCookie(calls[c1].res.setCookie))
                => calls[c1].res.setCookie \in calls'[c2].fetchOptions.Cookie]_vars
  /\ [](\A c2 \in CallIds :
          \A k \in calls[c2].fetchOptions.Cookie :
            \E c1 \in CallIds :
              /\ calls[c1].jar = calls[c2].jar
              /\ calls[c1].res.setCookie = k)

C7_Witness ==
  \E c1, c2 \in CallIds :
    /\ c1 < c2
    /\ calls[c1].pc = "done"
    /\ IsCookie(calls[c1].res.setCookie)
    /\ RealJar(c1)
    /\ calls[c2].jar = calls[c1].jar
    /\ calls[c2].pc = "fetching"
    /\ calls[c2].fetchOptions.Cookie = {calls[c1].res.setCookie}

\* C9: an instance has no jar of its own before its first jar:true call, every
\* jar:true call of an instance uses the one jar of that instance, two
\* instances never have the same jar of their own, and a jar used by calls of
\* two instances was made by request.jar() and passed as the jar option.
C9_InstanceJars ==
  /\ \A i \in 1..Len(instances) :
       /\ instances[i].instanceJar # 0 =>
            /\ instances[i].instanceJar \in 1..Len(jars)
            /\ instances[i].instanceJar \notin explicitJars
            /\ \E c \in CallIds :
                 calls[c].inst = i /\ JarOption(calls[c].options).kind = "true"
       /\ \A j \in 1..Len(instances) :
            (i # j /\ instances[i].instanceJar # 0) =>
              instances[i].instanceJar # instances[j].instanceJar
  /\ \A c \in CallIds :
       JarOption(calls[c].options).kind = "true" =>
         calls[c].jar = JarRef(instances[calls[c].inst].instanceJar)
  /\ \A c1, c2 \in CallIds :
       (RealJar(c1) /\ calls[c1].jar = calls[c2].jar
          /\ calls[c1].inst # calls[c2].inst) =>
         /\ calls[c1].jar.id \in explicitJars
         /\ JarOption(calls[c1].options) = calls[c1].jar
         /\ JarOption(calls[c2].options) = calls[c2].jar

C9_Witness ==
  \E c1, c2 \in CallIds :
    /\ calls[c1].inst = 1 /\ calls[c2].inst = 2
    /\ "jar" \notin DOMAIN calls[c2].opts
    /\ JarOption(calls[c1].options).kind = "true"
    /\ JarOption(calls[c2].options).kind = "true"
    /\ instances[1].instanceJar # 0
    /\ instances[2].instanceJar # 0
    /\ calls[c1].jar # calls[c2].jar

\* C10 as claimed: the read, the request and the write of a call are one
\* atomic unit for its jar: when a call writes its jar, the jar holds what the
\* call read from it, no other call having written in between.
C10_ReadModifyWriteAtomic ==
  [][\A c \in CallIds :
       WritesJar(c) => jars[calls[c].jar.id] = calls[c].fetchOptions.Cookie]_vars

\* C10 as amended: each jar read and each jar write is atomic by itself: a
\* jar holds exactly the cookies of the writes made to it, none lost and none
\* partial, and a Cookie header holds only cookies of such writes; but the read
\* and the later write of a call are not one atomic unit, other calls that
\* share the jar may read and write between them.
C10_ReadsAndWritesAtomic ==
  /\ \A j \in 1..Len(jars) :
       jars[j] = {calls[c].res.setCookie :
                    c \in {d \in CallIds : HasWritten(d) /\ calls[d].jar.id = j}}
  /\ \A c \in CallIds :
       RealJar(c) => calls[c].fetchOptions.Cookie \subseteq jars[calls[c].jar.id]

C10_Witness ==
  \E c1, c2 \in CallIds :
    /\ c1 # c2
    /\ calls[c1].jar = calls[c2].jar
    /\ HasWritten(c1) /\ HasWritten(c2)
    /\ calls[c1].fetchOptions.Cookie = {}
    /\ calls[c2].fetchOptions.Cookie = {}
    /\ jars[calls[c1].jar.id] = {calls[c1].res.setCookie, calls[c2].res.setCookie}

\* C12 as claimed: a no-callback call made without url and uri signals the
\* missing-URL error synchronously, while the result is being constructed
\* inside the call, and not through a later asynchronous step.
C12_MissingUrlSynchronous ==
  \A c \in PromiseCalls :
    MissingUrl(c) =>
      /\ calls[c].raised = Err(URLRequired)
      /\ calls[c].promise = "pending"
      /\ calls[c].events = << >>

\* C12 as amended: a no-callback call made without url and uri throws nothing
\* to its caller and returns its result object; the missing-URL error is
\* signalled when _init runs on the next tick, by rejecting the promise-view
\* and emitting 'error', and fetch is never called.
C12_MissingUrlOnNextTick ==
  \A c \in PromiseCalls :
    MissingUrl(c) =>
      /\ calls[c].raised = Null
      /\ calls[c].pc \in {"constructed", "done"}
      /\ calls[c].pc = "constructed" =>
           (calls[c].promise = "pending" /\ calls[c].events = << >>)
      /\ calls[c].pc = "done" =>
           /\ calls[c].promise = "rejected"
           /\ calls[c].value = [kind |-> "error", err |-> Err(URLRequired)]
           /\ calls[c].events = << "error" >>
           /\ calls[c].res = NoResponse

C12_Witness ==
  \E c \in PromiseCalls :
    /\ MissingUrl(c)
    /\ calls[c].pc = "done"
    /\ calls[c].raised = Null
    /\ calls[c].value.err = Err(URLRequired)

\* C13: for a response with a failure status in callback mode the callback is
\* invoked with (error, response, body) where response.statusCode is the
\* status, body is the body that was read, and the error carries the response
\* and a statusCode equal to the status.
C13_CallbackErrorHasStatusCode ==
  \A c \in CallbackCalls :
    (/\ calls[c].callbackCalls # << >>
     /\ calls[c].res.status >= 400
     /\ FirstCallback(c).body = "body") =>
      /\ FirstCallback(c).response = calls[c].res.status
      /\ FirstCallback(c).err.response
      /\ FirstCallback(c).err.statusCode = calls[c].res.status

\* the invocations of the callback of call c
Invocations(c) == {calls[c].callbackCalls[k] : k \in 1..Len(calls[c].callbackCalls)}
\* the errors that arise before responseForCallback is built
BeforeResponseBuilt == {URLRequired, JarTypeError, NetworkError, CookieParseError}
\* the errors that arise before fetch is called
BeforeDispatch == {URLRequired, JarTypeError}

\* C14 as claimed: the second argument of the callback is null only for
\* errors raised before the transport call is dispatched.
C14_NullOnlyBeforeDispatch ==
  \A c \in CallbackCalls :
    \A inv \in Invocations(c) :
      inv.response = 0 => inv.err.message \in BeforeDispatch

\* C14 as amended: the second argument of the callback is the response object
\* built from the transport response whenever the failure arose after that
\* object was built (failure status, body read failure, a callback that threw),
\* and it is null whenever the failure arose before: a missing URL, a jar
\* lookup failure, a transport failure, a set-cookie header the jar rejects.
C14_NullUntilResponseBuilt ==
  \A c \in CallbackCalls :
    \A inv \in Invocations(c) :
      /\ inv.response = 0 <=> inv.err.message \in BeforeResponseBuilt
      /\ inv.response # 0 => inv.response = calls[c].res.status
      /\ inv.err = Null => inv.response # 0

C14_Witness ==
  \E c \in CallbackCalls :
    /\ calls[c].pc = "done"
    /\ calls[c].thrown = Err(NetworkError)
    /\ FirstCallback(c) = [err |-> Err(NetworkError), response |-> 0, body |-> "null"]

MergeKeyWise(x, y) ==
  LET m == Spread(x, y) IN
  IF "headers" \in DOMAIN x /\ "headers" \in DOMAIN y
    THEN [m EXCEPT !["headers"] = Spread(x["headers"], y["headers"])]
    ELSE m

\* C16: an instance derived as request.defaults(x).defaults(y) has the same
\* default options as request.defaults(m) has, m being y laid over x with the
\* headers merged key by key, also when x holds a value by reference such as
\* a jar made by request.jar().
C16_DefaultsCompose ==
  \A k \in 2..Len(instances) :
    LET j == instances[k].parent IN
    j > 1 =>
      LET i == instances[j].parent
          x == instances[j].given
          y == instances[k].given
      IN instances[k].defaultOptions =
           MergedDefaults(instances[i].defaultOptions, MergeKeyWise(x, y))

\* the step runs controller.abort() for call c
Aborts(c) ==
  /\ c \in CallIds
  /\ calls[c].aborted = "no"
  /\ calls'[c].aborted # "no"
\* the timer of call c fired before fetch had completed
AbortedInFlight(c) == calls[c].aborted \in {"translated", "fetching"}

\* C11: a call whose timer fires before its transport call has completed
\* gets no response and settles with the AbortError, which is not the error of
\* a transport failure: the callback is invoked once with it, or the
\* promise-view is rejected with it and 'error' is emitted; and the abort of a
\* call changes nothing in any other call, every other call going on to the
\* outcomes it has alone.
C11_TimeoutAbortsOnlyItsCall ==
  /\ [](\A c \in CallIds :
          AbortedInFlight(c) =>
            /\ calls[c].pc \in {"translated", "fetching", "done"}
            /\ calls[c].res = NoResponse
            /\ calls[c].pc = "done" =>
                 /\ calls[c].thrown = Err(AbortError)
                 /\ calls[c].thrown # Err(NetworkError)
                 /\ calls[c].hasCallback =>
                      calls[c].callbackCalls =
                        << [err |-> Err(AbortError), response |-> 0, body |-> "null"] >>
                 /\ ~calls[c].hasCallback =>
                      /\ calls[c].promise = "rejected"
                      /\ calls[c].value = [kind |-> "error", err |-> Err(AbortError)]
                      /\ calls[c].events = << "error" >>)
  /\ [](\A c \in CallIds :
          (calls[c].aborted = "no" /\ calls[c].pc = "done") =>
            calls[c].thrown # Err(AbortError))
  /\ [][\A c \in CallIds :
          Aborts(c) => \A d \in CallIds \ {c} : calls'[d] = calls[d]]_vars

C11_Witness ==
  \E c, d \in CallIds :
    /\ c # d
    /\ calls[c].aborted = "fetching"
    /\ calls[c].pc = "done"
    /\ calls[c].thrown = Err(AbortError)
    /\ "timeout" \in DOMAIN calls[d].options
    /\ calls[d].aborted = "no"
    /\ calls[d].pc = "done"
    /\ calls[d].res.status = 200
    /\ calls[d].thrown = Null

\* C17: a failing no-callback call leaves no rejection unhandled and no
\* exception uncaught, whatever the caller has attached: promise handlers
\* only, an 'error' listener only, both, or a pipe.
C17_NothingUnhandled ==
  \A c \in PromiseCalls :
    (calls[c].pc = "done" /\ calls[c].thrown # Null
       /\ (calls[c].onThen \/ calls[c].onError \/ calls[c].isPiped)) =>
      calls[c].unhandled = {}

\* C18: when the timer of a call fires after the call has settled, nothing
\* the caller can see changes: no further callback invocation, no event, the
\* promise-view as it was, nothing left unhandled, and a body that is being
\* piped goes on to its end.
C18_LateTimeoutInvisible ==
  [][\A c \in CallIds :
       (Aborts(c) /\ Settled(calls[c])) =>
         /\ calls'[c].callbackCalls = calls[c].callbackCalls
         /\ calls'[c].events = calls[c].events
         /\ calls'[c].promise = calls[c].promise
         /\ calls'[c].value = calls[c].value
         /\ calls'[c].unhandled = calls[c].unhandled
         /\ calls'[c].stream = calls[c].stream]_vars

====
